---------------------------- MODULE Spec2Model ----------------------------
(***************************************************************************)
(* A model of CanvasWriter (src/index.js): the single-line writer, the     *)
(* multi-line writer, the hard wrap, the word wrap, cloneFrom and the      *)
(* export promises.                                                        *)
(*                                                                         *)
(* A string is a sequence of one-character strings.  An options object is  *)
(* a function whose DOMAIN is the set of keys the caller supplied; a key   *)
(* that is not in the DOMAIN reads as undefined.                           *)
(***************************************************************************)
EXTENDS Integers, Sequences, FiniteSets, TLC

VARIABLES writers, call, arg, promises

vars == <<writers, call, arg, promises>>

(***************************************************************************)
(* Bounds of the model.                                                    *)
(***************************************************************************)
\* longest input text of the wrap operations, in characters
MaxLen == 6
\* widest maxWidth handed to the wrap operations (the narrowest is 0)
MaxWidthArg == 6
\* most LineRecords writer A accumulates under Spec
MaxLog == 2
\* most LineRecords a writer accumulates under SpecClone
MaxCloneLog == 3
\* deepest ctx.save() stack a writer accumulates
MaxStack == 4
\* most export promises outstanding or settled at once
MaxExports == 3

(***************************************************************************)
(* Generic helpers.                                                        *)
(***************************************************************************)
Min(a, b) == IF a < b THEN a ELSE b

Max(a, b) == IF a > b THEN a ELSE b

Front(s) == SubSeq(s, 1, Len(s) - 1)

Last(s) == s[Len(s)]

\* all sequences over S of length at most n
SeqsUpTo(S, n) == UNION {[1..k -> S] : k \in 0..n}

(***************************************************************************)
(* JavaScript string and array primitives used by the wrap algorithms.     *)
(***************************************************************************)
\* String.prototype.slice(start) with one argument
Slice1(text, start) ==
    LET len == Len(text)
        from == IF start < 0 THEN Max(len + start, 0) ELSE Min(start, len)
    IN  SubSeq(text, from + 1, len)

\* String.prototype.slice(0, -1)
DropLast(text) == SubSeq(text, 1, Max(Len(text) - 1, 0))

RECURSIVE SplitFrom(_, _, _, _)
\* the scan behind String.prototype.split(sep) for a one-character sep:
\* cur is the piece being collected, acc the pieces already closed
SplitFrom(text, sep, cur, acc) ==
    IF text = <<>> THEN Append(acc, cur)
    ELSE IF Head(text) = sep
         THEN SplitFrom(Tail(text), sep, <<>>, Append(acc, cur))
         ELSE SplitFrom(Tail(text), sep, Append(cur, Head(text)), acc)

\* String.prototype.split(sep): "" splits to [""]
Split(text, sep) == SplitFrom(text, sep, <<>>, <<>>)

RECURSIVE Join(_)
\* Array.prototype.join(' '): [] joins to ""
Join(words) ==
    IF words = <<>> THEN <<>>
    ELSE IF Len(words) = 1 THEN words[1]
         ELSE words[1] \o <<" ">> \o Join(Tail(words))

(***************************************************************************)
(* The drawing surface's text measurement (ctx.measureText), for the one   *)
(* font of the model: advances add up, the ascent of a text is that of its *)
(* tallest glyph, the em descent is a constant of the font.                *)
(***************************************************************************)
Alphabet == {"a", "W", " "}

CharWidth(c) == CASE c = "W" -> 3 [] OTHER -> 1

CharAscent(c) == CASE c = "W" -> 3 [] c = "a" -> 2 [] OTHER -> 0

RECURSIVE Width(_)
\* measureText(text).width
Width(text) ==
    IF text = <<>> THEN 0 ELSE CharWidth(Head(text)) + Width(Tail(text))

RECURSIVE Ascent(_)
\* measureText(text).actualBoundingBoxAscent
Ascent(text) ==
    IF text = <<>> THEN 0 ELSE Max(CharAscent(Head(text)), Ascent(Tail(text)))

\* measureText(text).actualBoundingBoxLeft
BoundingBoxLeft(text) == IF text # <<>> /\ Head(text) = "W" THEN 1 ELSE 0

\* measureText(text).emHeightDescent
EmHeightDescent == 1


(***************************************************************************)
(* Options objects.                                                        *)
(***************************************************************************)
NoOptions == [k \in {} |-> 0]

Has(o, k) == k \in DOMAIN o

\* o[k] || d for a numeric option: undefined and 0 are falsy
NumOr(o, k, d) == IF Has(o, k) /\ o[k] # 0 THEN o[k] ELSE d

\* o[k] || d for a string option: undefined and "" are falsy
StrOr(o, k, d) == IF Has(o, k) /\ o[k] # "" THEN o[k] ELSE d

\* assignment to a paint field of the surface: an undefined value is ignored
AssignPaint(old, o, k) == IF Has(o, k) THEN o[k] ELSE old

\* assignment to ctx.lineWidth: the surface ignores whatever is not a
\* positive number
AssignLineWidth(old, o) ==
    IF Has(o, "width") /\ o["width"] > 0 THEN o["width"] ELSE old

(***************************************************************************)
(* The writer: cursor, log, and the part of the drawing context whose      *)
(* state outlives a call (stroke paint fields and the save() stack).       *)
(***************************************************************************)
\* the context a fresh canvas hands out
DefaultCtx == [lineWidth |-> 1, strokeStyle |-> "#000000", lineJoin |-> "miter"]

\* constructor: ctx.save(), line = 0, texts = []
NewWriter ==
    [line |-> 0, texts |-> <<>>, ctx |-> DefaultCtx, stack |-> <<DefaultCtx>>]

\* get lineCount
LineCount(w) == Len(w.texts)

\* ctx.save()
CtxSave(w) == [w EXCEPT !.stack = Append(@, w.ctx)]

\* ctx.restore()
CtxRestore(w) ==
    IF w.stack = <<>> THEN w
    ELSE [w EXCEPT !.ctx = Last(w.stack), !.stack = Front(w.stack)]

\* strokeOptions.style || strokeOptions.width || strokeOptions.join
StrokeActive(strokeOptions) ==
    \/ StrOr(strokeOptions, "style", "") # ""
    \/ NumOr(strokeOptions, "width", 0) # 0
    \/ StrOr(strokeOptions, "join", "") # ""

\* CapReached with the comparison off by one (> for >=)
CapReachedOffByOne(w, options) ==
    LET maxLines == NumOr(options, "maxLines", 0)
    IN  LineCount(w) > maxLines /\ maxLines > 0

\* let maxLines = options.maxLines || 0;
\* this.lineCount >= maxLines && maxLines > 0
CapReached(w, options) ==
    LET maxLines == NumOr(options, "maxLines", 0)
    IN  LineCount(w) >= maxLines /\ maxLines > 0

\* Advance with the sign of the spacing slipped
AdvanceSignSlip(text, lineWidth, spacing) ==
    Ascent(text) + EmHeightDescent + lineWidth - spacing

\* the cursor advance of the stroke path (with the context's lineWidth) and
\* of the fill-only path (lineWidth 0)
Advance(text, lineWidth, spacing) ==
    Ascent(text) + EmHeightDescent + lineWidth + spacing

\* writeText(text, options, strokeOptions): the writer after the call
WriteTextOp(w, text, options, strokeOptions) ==
    LET saved == CtxSave(w)
    IN  IF CapReached(w, options) THEN saved
        ELSE
        LET offsetX == NumOr(options, "x", 5)
            offsetY == NumOr(options, "y", 5)
            spacing == IF w.line = 0 THEN 0 ELSE NumOr(options, "spacing", 0)
            textAlign == StrOr(options, "align", "start")
            ctx == [lineWidth |-> AssignLineWidth(w.ctx.lineWidth, strokeOptions),
                    strokeStyle |-> AssignPaint(w.ctx.strokeStyle, strokeOptions, "style"),
                    lineJoin |-> AssignPaint(w.ctx.lineJoin, strokeOptions, "join")]
        IN  IF StrokeActive(strokeOptions)
            THEN LET xSpace == (IF textAlign = "center" THEN 0
                                ELSE BoundingBoxLeft(text) + ctx.lineWidth) + offsetX
                     ySpace == w.line + Ascent(text) + ctx.lineWidth + spacing + offsetY
                 IN  [saved EXCEPT
                        !.ctx = ctx,
                        !.texts = Append(@, [text |-> text, xSpace |-> xSpace,
                                             ySpace |-> ySpace, options |-> options,
                                             strokeOptions |-> strokeOptions]),
                        !.line = @ + Advance(text, ctx.lineWidth, spacing)]
            ELSE LET xSpace == (IF textAlign = "center" THEN 0
                                ELSE BoundingBoxLeft(text)) + offsetX
                     ySpace == w.line + Ascent(text) + spacing + offsetY
                 IN  CtxRestore([saved EXCEPT
                        !.ctx = ctx,
                        !.texts = Append(@, [text |-> text, xSpace |-> xSpace,
                                             ySpace |-> ySpace, options |-> options,
                                             strokeOptions |-> strokeOptions]),
                        !.line = @ + Advance(text, 0, spacing)])

RECURSIVE WriteLinesOp(_, _, _, _)
\* writeLines(lines, options, strokeOptions) for an array of lines:
\* texts.forEach(t => this.writeText(t, options, strokeOptions))
WriteLinesOp(w, lines, options, strokeOptions) ==
    IF lines = <<>> THEN w
    ELSE WriteLinesOp(WriteTextOp(w, Head(lines), options, strokeOptions),
                      Tail(lines), options, strokeOptions)

(***************************************************************************)
(* Hard wrap.                                                              *)
(***************************************************************************)
\* frames a recursion may use before the engine throws RangeError.  A
\* recursion that consumes its input needs at most two frames a character.
StackLimit == 2 * MaxLen + 4

RECURSIVE ShrinkStopsAtTwo(_, _, _)
\* Shrink with the floor of the loop at two characters (length > 2)
ShrinkStopsAtTwo(section, j, maxWidth) ==
    IF Width(section) > maxWidth /\ Len(section) > 2
    THEN ShrinkStopsAtTwo(DropLast(section), j + 1, maxWidth)
    ELSE [section |-> section, j |-> j]

RECURSIVE Shrink(_, _, _)
\* the while loop shared by both reduceToFit closures: drop the last
\* character while the section is too wide and longer than one character
Shrink(section, j, maxWidth) ==
    IF Width(section) > maxWidth /\ Len(section) > 1
    THEN Shrink(DropLast(section), j + 1, maxWidth)
    ELSE [section |-> section, j |-> j]

RECURSIVE ReduceToFit(_, _, _, _)
\* reduceToFit of writeWrapped, called at stack depth `depth` with
\* `results` as built so far
ReduceToFit(text, maxWidth, results, depth) ==
    IF depth > StackLimit
    THEN [outcome |-> "RangeError", results |-> results]
    ELSE IF Width(text) > maxWidth
         THEN LET s == Shrink(text, 1, maxWidth)
              IN  ReduceToFit(Slice1(text, (-s.j) + 1), maxWidth,
                              Append(results, s.section), depth + 1)
         ELSE [outcome |-> "returned", results |-> Append(results, text)]

\* writeWrapped(text, maxWidth, options, strokeOptions)
WriteWrappedOp(w, text, maxWidth, options, strokeOptions) ==
    LET r == ReduceToFit(text, maxWidth, <<>>, 1)
    IN  IF r.outcome = "returned"
        THEN [outcome |-> "returned",
              writer |-> WriteLinesOp(w, r.results, options, strokeOptions)]
        ELSE [outcome |-> r.outcome, writer |-> w]

(***************************************************************************)
(* Word wrap.                                                              *)
(***************************************************************************)
\* reduceToFit of writeWordWrapped: the line it pushes (if any) and the
\* text it returns
ReduceWord(text, maxWidth) ==
    IF Width(text) > maxWidth
    THEN LET s == Shrink(text, 1, maxWidth)
         IN  [pushed |-> <<s.section>>, extra |-> Slice1(text, (-s.j) + 1)]
    ELSE [pushed |-> <<>>, extra |-> text]

RECURSIVE PopWordsEarlyReduce(_, _, _)
\* PopWords taking the hard-wrap branch while two words are still in the
\* section (length <= 2 for length === 1)
PopWordsEarlyReduce(section, remainder, maxWidth) ==
    IF Width(Join(section)) > maxWidth /\ Len(Join(section)) > 1
    THEN IF Len(section) <= 2
         THEN [section |-> section, remainder |-> remainder, single |-> TRUE]
         ELSE PopWordsEarlyReduce(Front(section), <<Last(section)>> \o remainder,
                                  maxWidth)
    ELSE [section |-> section, remainder |-> remainder, single |-> FALSE]

RECURSIVE PopWords(_, _, _)
\* the while loop of splitToFit, up to its exit or to the single-word branch
PopWords(section, remainder, maxWidth) ==
    IF Width(Join(section)) > maxWidth /\ Len(Join(section)) > 1
    THEN IF Len(section) = 1
         THEN [section |-> section, remainder |-> remainder, single |-> TRUE]
         ELSE PopWords(Front(section), <<Last(section)>> \o remainder, maxWidth)
    ELSE [section |-> section, remainder |-> remainder, single |-> FALSE]

RECURSIVE SplitToFit(_, _, _, _)
\* splitToFit of writeWordWrapped
SplitToFit(text, maxWidth, results, depth) ==
    IF depth > StackLimit
    THEN [outcome |-> "RangeError", results |-> results]
    ELSE IF text = <<>>
    THEN [outcome |-> "returned", results |-> results]
    ELSE LET words == Split(text, " ")
         IN  IF Width(Join(words)) > maxWidth
             THEN LET p == PopWords(words, <<>>, maxWidth)
                  IN  IF p.single
                      THEN LET r == ReduceWord(Join(p.section), maxWidth)
                           IN  SplitToFit(r.extra \o <<" ">> \o Join(p.remainder),
                                          maxWidth, results \o r.pushed, depth + 1)
                      ELSE SplitToFit(Join(p.remainder), maxWidth,
                                      Append(results, Join(p.section)), depth + 1)
             ELSE [outcome |-> "returned", results |-> Append(results, text)]

\* writeWordWrapped(text, maxWidth, options, strokeOptions)
WriteWordWrappedOp(w, text, maxWidth, options, strokeOptions) ==
    LET r == SplitToFit(text, maxWidth, <<>>, 1)
    IN  IF r.outcome = "returned"
        THEN [outcome |-> "returned",
              writer |-> WriteLinesOp(w, r.results, options, strokeOptions)]
        ELSE [outcome |-> r.outcome, writer |-> w]

(***************************************************************************)
(* State: the writers A and B, the last call made (with the writer as it   *)
(* was before the call), the inputs drawn for the wrap operations, and the *)
(* export promises.                                                        *)
(***************************************************************************)
NoCall ==
    [op |-> "new", target |-> "A", text |-> <<>>, lines |-> <<>>, maxWidth |-> 0,
     options |-> NoOptions, strokeOptions |-> NoOptions, limit |-> 0,
     outcome |-> "returned", before |-> NewWriter]

\* the inputs of the wrap operations
WrapTexts == SeqsUpTo(Alphabet, MaxLen)

WrapWidths == 0..MaxWidthArg

InitWrap ==
    /\ writers = [n \in {"A", "B"} |-> NewWriter]
    /\ call = NoCall
    /\ arg \in [text : WrapTexts, maxWidth : WrapWidths]
    /\ promises = <<>>

\* picture.writeWrapped(text, maxWidth) on the fresh writer
WriteWrapped ==
    /\ call.op = "new"
    /\ LET r == WriteWrappedOp(writers["A"], arg.text, arg.maxWidth, NoOptions, NoOptions)
       IN  /\ writers' = [writers EXCEPT !["A"] = r.writer]
           /\ call' = [NoCall EXCEPT !.op = "writeWrapped", !.text = arg.text,
                                     !.maxWidth = arg.maxWidth, !.outcome = r.outcome,
                                     !.before = writers["A"]]
    /\ UNCHANGED <<arg, promises>>

\* picture.writeWordWrapped(text, maxWidth) on the fresh writer
WriteWordWrapped ==
    /\ call.op = "new"
    /\ LET r == WriteWordWrappedOp(writers["A"], arg.text, arg.maxWidth, NoOptions, NoOptions)
       IN  /\ writers' = [writers EXCEPT !["A"] = r.writer]
           /\ call' = [NoCall EXCEPT !.op = "writeWordWrapped", !.text = arg.text,
                                     !.maxWidth = arg.maxWidth, !.outcome = r.outcome,
                                     !.before = writers["A"]]
    /\ UNCHANGED <<arg, promises>>

NextWrap == WriteWrapped \/ WriteWordWrapped

SpecWrap == InitWrap /\ [][NextWrap]_vars

\* the texts of the LineRecords of writer n, in insertion order
LogTexts(n) == [i \in 1..Len(writers[n].texts) |-> writers[n].texts[i].text]

(***************************************************************************)
(* The single-line and multi-line writers on writer A.                     *)
(***************************************************************************)
WriteTexts == {<<"W", "a">>}

WriteOptions ==
    {NoOptions, [spacing |-> 6], [spacing |-> -6], [maxLines |-> 1],
     [maxLines |-> 2, align |-> "center", x |-> 7, y |-> 0]}

StrokeOptions == {NoOptions, [width |-> 3], [style |-> "red"]}

\* the strokeOptions handed to writeLines: none, and a width the surface
\* does not accept
LinesStrokeOptions == {NoOptions, [width |-> -2]}

\* the arrays handed to writeLines
WriteLinesArgs == {<<<<"a">>, <<"W", "a">>>>, <<<<"W", "a">>, <<>>, <<"a">>>>}

\* the model follows a writer up to maxLog records and MaxStack saved contexts
WithinBounds(w, maxLog) == LineCount(w) <= maxLog /\ Len(w.stack) <= MaxStack

Init ==
    /\ writers = [n \in {"A", "B"} |-> NewWriter]
    /\ call = NoCall
    /\ arg = [text |-> <<>>, maxWidth |-> 0]
    /\ promises = <<>>

\* writers[n].writeText(text, options, strokeOptions)
WriteText(n, text, options, strokeOptions, maxLog) ==
    LET w == WriteTextOp(writers[n], text, options, strokeOptions)
    IN  /\ WithinBounds(w, maxLog)
        /\ writers' = [writers EXCEPT ![n] = w]
        /\ call' = [NoCall EXCEPT !.op = "writeText", !.target = n, !.text = text,
                                  !.options = options, !.strokeOptions = strokeOptions,
                                  !.before = writers[n]]
        /\ UNCHANGED <<arg, promises>>

\* writers[n].writeLines(lines, options, strokeOptions)
WriteLines(n, lines, options, strokeOptions) ==
    LET w == WriteLinesOp(writers[n], lines, options, strokeOptions)
    IN  /\ WithinBounds(w, MaxLog)
        /\ writers' = [writers EXCEPT ![n] = w]
        /\ call' = [NoCall EXCEPT !.op = "writeLines", !.target = n, !.lines = lines,
                                  !.options = options, !.strokeOptions = strokeOptions,
                                  !.before = writers[n]]
        /\ UNCHANGED <<arg, promises>>

Next ==
    \/ \E t \in WriteTexts, o \in WriteOptions, s \in StrokeOptions :
          WriteText("A", t, o, s, MaxLog)
    \/ \E l \in WriteLinesArgs, o \in WriteOptions, s \in LinesStrokeOptions :
          WriteLines("A", l, o, s)

Spec == Init /\ [][Next]_vars

(***************************************************************************)
(* cloneFrom, with writer B as the source and writer A as the target.      *)
(***************************************************************************)
\* Array.prototype.slice(0, end)
SliceTo(seq, end) ==
    LET len == Len(seq)
        to == IF end < 0 THEN Max(len + end, 0) ELSE Min(end, len)
    IN  SubSeq(seq, 1, to)

RECURSIVE Replay(_, _)
\* toClone.forEach(t => this.writeText(t.text, t.options, t.strokeOptions))
Replay(w, toClone) ==
    IF toClone = <<>> THEN w
    ELSE Replay(WriteTextOp(w, Head(toClone).text, Head(toClone).options,
                            Head(toClone).strokeOptions),
                Tail(toClone))

\* cloneFrom that ignores its limit
CloneFromAll(w, src, limit) == Replay(w, src.texts)

\* cloneFrom(CanvasWriter, limit)
CloneFromOp(w, src, limit) == Replay(w, SliceTo(src.texts, limit))

\* the writeText calls that build up the two writers of the clone scenario
CloneInputs ==
    {[text |-> <<"a">>, options |-> NoOptions, strokeOptions |-> NoOptions],
     [text |-> <<"W", "a">>, options |-> [maxLines |-> 2, spacing |-> 4],
      strokeOptions |-> NoOptions],
     [text |-> <<"a">>, options |-> [y |-> 9], strokeOptions |-> [width |-> 3]]}

\* writers["A"].cloneFrom(writers["B"], limit)
CloneFrom(limit) ==
    LET w == CloneFromOp(writers["A"], writers["B"], limit)
    IN  /\ WithinBounds(w, MaxCloneLog)
        /\ writers' = [writers EXCEPT !["A"] = w]
        /\ call' = [NoCall EXCEPT !.op = "cloneFrom", !.limit = limit,
                                  !.before = writers["A"]]
        /\ UNCHANGED <<arg, promises>>

NextClone ==
    \/ \E n \in {"A", "B"}, i \in CloneInputs :
          WriteText(n, i.text, i.options, i.strokeOptions, MaxCloneLog)
    \/ \E limit \in 0..MaxCloneLog : CloneFrom(limit)

SpecClone == Init /\ [][NextClone]_vars

(***************************************************************************)
(* The export promises.  An entry of `promises` is one call of dataURL,    *)
(* buffer or saveFile: the promise it returned, the promise of the inner   *)
(* this.buffer() of saveFile, and the callback that is still to come.      *)
(***************************************************************************)
NewExport(kind) ==
    [kind |-> kind, promise |-> "pending", reason |-> "none",
     inner |-> IF kind = "saveFile" THEN "pending" ELSE "none",
     awaiting |-> "encode"]

\* dataURL(), buffer() or saveFile(path) is called
CallExport(kind) ==
    /\ Len(promises) < MaxExports
    /\ promises' = Append(promises, NewExport(kind))
    /\ UNCHANGED <<writers, call, arg>>

\* the callback of canvas.toDataURL / canvas.toBuffer runs, with or
\* without an error
EncodeCallback(i, err) ==
    /\ promises[i].awaiting = "encode"
    /\ promises' = [promises EXCEPT ![i] =
          IF @.kind = "saveFile"
          THEN \* the callback settles the promise of this.buffer()
               IF err THEN [@ EXCEPT !.inner = "rejected", !.awaiting = "nothing"]
               ELSE [@ EXCEPT !.inner = "resolved", !.awaiting = "then"]
          ELSE IF err
               THEN [@ EXCEPT !.promise = "rejected", !.reason = "encode",
                              !.awaiting = "nothing"]
               ELSE [@ EXCEPT !.promise = "resolved", !.awaiting = "nothing"]]
    /\ UNCHANGED <<writers, call, arg>>

\* the fulfilment handler of saveFile's this.buffer().then(...) runs: it
\* calls fs.writeFile
ThenCallback(i) ==
    /\ promises[i].awaiting = "then"
    /\ promises' = [promises EXCEPT ![i].awaiting = "writeFile"]
    /\ UNCHANGED <<writers, call, arg>>

\* the callback of fs.writeFile runs: if (err) reject(err); resolve(path)
WriteFileCallback(i, err) ==
    /\ promises[i].awaiting = "writeFile"
    /\ promises' = [promises EXCEPT ![i] =
          IF err
          THEN [@ EXCEPT !.promise = "rejected", !.reason = "writeFile",
                         !.awaiting = "nothing"]
          ELSE [@ EXCEPT !.promise = "resolved", !.awaiting = "nothing"]]
    /\ UNCHANGED <<writers, call, arg>>

NextExport ==
    \/ \E kind \in {"dataURL", "buffer", "saveFile"} : CallExport(kind)
    \/ \E i \in 1..Len(promises), err \in BOOLEAN : EncodeCallback(i, err)
    \/ \E i \in 1..Len(promises) : ThenCallback(i)
    \/ \E i \in 1..Len(promises), err \in BOOLEAN : WriteFileCallback(i, err)

SpecExport == Init /\ [][NextExport]_vars

(***************************************************************************)
(* Properties.                                                             *)
(***************************************************************************)
A == writers["A"]

B == writers["B"]

Wrapped == call.op \in {"writeWrapped", "writeWordWrapped"}

Written == call.op \in {"writeText", "writeLines"}

RECURSIVE Concat(_)
Concat(ss) == IF ss = <<>> THEN <<>> ELSE Head(ss) \o Concat(Tail(ss))

\* the characters of a text that are not spaces
Ink(text) == SelectSeq(text, LAMBDA c : c # " ")

\* the space-delimited words of a text
Words(text) == SelectSeq(Split(text, " "), LAMBDA w : w # <<>>)

\* the words of the sub-lines, in output order
RECURSIVE Tokens(_)
Tokens(lines) ==
    IF lines = <<>> THEN <<>> ELSE Words(Head(lines)) \o Tokens(Tail(lines))

IsPrefix(p, w) == Len(p) <= Len(w) /\ SubSeq(w, 1, Len(p)) = p

\* tokens is words with no word cut in pieces, except words wider than
\* maxWidth (broken: the first word is what is left of such a word)
RECURSIVE KeepsWords(_, _, _, _)
KeepsWords(words, tokens, maxWidth, broken) ==
    IF words = <<>> THEN tokens = <<>>
    ELSE IF tokens = <<>> THEN FALSE
    ELSE LET w == Head(words)
             t == Head(tokens)
         IN  IF t = w THEN KeepsWords(Tail(words), Tail(tokens), maxWidth, FALSE)
             ELSE /\ broken \/ Width(w) > maxWidth
                  /\ IsPrefix(t, w)
                  /\ KeepsWords(<<SubSeq(w, Len(t) + 1, Len(w))>> \o Tail(words),
                                Tail(tokens), maxWidth, TRUE)

\* C1: every sub-line the hard wrap and the word wrap write measures at most
\* maxWidth or is at most one character long.
SubLinesFit ==
    Wrapped =>
        \A i \in 1..Len(LogTexts("A")) :
            Width(LogTexts("A")[i]) <= call.maxWidth \/ Len(LogTexts("A")[i]) <= 1

\* a hard wrap that wrote a character wider than maxWidth alone, next to a
\* sub-line of several characters
SubLinesFitWitness ==
    /\ call.op = "writeWrapped"
    /\ \E i \in 1..Len(LogTexts("A")) : Width(LogTexts("A")[i]) > call.maxWidth
    /\ \E i \in 1..Len(LogTexts("A")) : Len(LogTexts("A")[i]) >= 2

\* C2: the hard wrap terminates (returns) for every text and every maxWidth.
HardWrapTerminates == call.op = "writeWrapped" => call.outcome = "returned"

\* C3: for a non-empty text, the sub-lines of the hard wrap concatenate to the
\* input, and the non-space characters of the sub-lines of the word wrap are
\* those of the input, in order.
WrapKeepsEveryCharacter ==
    /\ (call.op = "writeWrapped" /\ call.text # <<>>) =>
           Concat(LogTexts("A")) = call.text
    /\ (call.op = "writeWordWrapped" /\ call.text # <<>>) =>
           Ink(Concat(LogTexts("A"))) = Ink(call.text)

\* what is left of C3 when the hard wrap returns: its sub-lines concatenate to
\* the input, and the word wrap keeps the non-space characters of every text
WrapKeepsEveryCharacterWhenItReturns ==
    /\ (call.op = "writeWrapped" /\ call.outcome = "returned") =>
           Concat(LogTexts("A")) = call.text
    /\ call.op = "writeWordWrapped" =>
           call.outcome = "returned" /\ Ink(Concat(LogTexts("A"))) = Ink(call.text)

\* the hard wrap fails to return exactly when the last character of the text
\* is wider than maxWidth
HardWrapOverflowsOnWideLastCharacter ==
    call.op = "writeWrapped" =>
        (call.outcome = "RangeError" <=>
            (call.text # <<>> /\ Width(<<Last(call.text)>>) > call.maxWidth))

FittingTextIsOneLine ==
    (Wrapped /\ Width(call.text) <= call.maxWidth) => LogTexts("A") = <<call.text>>

\* what is left of C5 for texts that are not empty
FittingNonEmptyTextIsOneLine ==
    (Wrapped /\ call.text # <<>> /\ Width(call.text) <= call.maxWidth) =>
        LogTexts("A") = <<call.text>>

\* C6: a write that passes a positive maxLines = K to a writer that holds K
\* records or more leaves the log and the cursor as they were.
CapReachedIsNoOp ==
    (Written /\ NumOr(call.options, "maxLines", 0) > 0
             /\ LineCount(call.before) >= NumOr(call.options, "maxLines", 0)) =>
        (A.texts = call.before.texts /\ A.line = call.before.line)

\* a writeText with maxLines = K on a writer whose K records moved the cursor
CapReachedIsNoOpWitness ==
    /\ call.op = "writeText"
    /\ NumOr(call.options, "maxLines", 0) > 0
    /\ LineCount(call.before) = NumOr(call.options, "maxLines", 0)
    /\ call.before.line > 0

\* C7 as stated: the cursor starts at zero and no write, whatever its options,
\* leaves it smaller than it was.
CursorNeverDecreases ==
    /\ call.op = "new" => A.line = 0
    /\ Written => A.line >= call.before.line

\* C7 as amended: the cursor starts at zero and no write whose spacing option
\* is not negative leaves it smaller than it was.
CursorNeverDecreasesUnlessSpacingNegative ==
    /\ call.op = "new" => A.line = 0
    /\ (Written /\ NumOr(call.options, "spacing", 0) >= 0) => A.line >= call.before.line

\* a stroked write with a positive spacing below the first line
CursorWitness ==
    /\ call.op = "writeText"
    /\ NumOr(call.options, "spacing", 0) > 0
    /\ StrokeActive(call.strokeOptions)
    /\ call.before.line > 0
    /\ LineCount(A) = LineCount(call.before) + 1

\* the stored maxLines of a record
StoredCap(rec) == NumOr(rec.options, "maxLines", 0)

\* the records among recs that a replay into a writer of count records writes
RECURSIVE Replayed(_, _)
Replayed(count, recs) ==
    IF recs = <<>> THEN <<>>
    ELSE IF StoredCap(Head(recs)) > 0 /\ count >= StoredCap(Head(recs))
         THEN Replayed(count, Tail(recs))
         ELSE <<Head(recs)>> \o Replayed(count + 1, Tail(recs))

\* the y of record rec written at cursor `line` by a context whose lineWidth
\* was lineWidth
YAt(rec, line, lineWidth) ==
    line + Ascent(rec.text)
         + (IF StrokeActive(rec.strokeOptions)
            THEN AssignLineWidth(lineWidth, rec.strokeOptions) ELSE 0)
         + (IF line = 0 THEN 0 ELSE NumOr(rec.options, "spacing", 0))
         + NumOr(rec.options, "y", 5)

\* the appended records (those after the first n0) carry the texts of recs,
\* the first placed from A's cursor before the call and the last leaving A's
\* cursor one em descent below its baseline
AppendedFrom(recs, n0) ==
    /\ Len(A.texts) = n0 + Len(recs)
    /\ SubSeq(A.texts, 1, n0) = call.before.texts
    /\ \A i \in 1..Len(recs) : A.texts[n0 + i].text = recs[i].text
    /\ recs # <<>> =>
          /\ A.texts[n0 + 1].ySpace =
                YAt(recs[1], call.before.line, call.before.ctx.lineWidth)
          /\ A.line = Last(A.texts).ySpace - NumOr(Last(recs).options, "y", 5)
                      + EmHeightDescent

\* C8 as stated: cloneFrom(B, 2) appends exactly two records to A, with the
\* texts of B's first two records, placed from A's cursor.
CloneAppendsExactlyTwo ==
    (call.op = "cloneFrom" /\ call.limit = 2) =>
        /\ Len(A.texts) = Len(call.before.texts) + 2
        /\ AppendedFrom(SubSeq(B.texts, 1, 2), Len(call.before.texts))

\* C8 as amended: cloneFrom(B, 2) appends one record for each of B's first two
\* records (fewer when B holds fewer) whose stored positive maxLines A's line
\* count has not reached, with their texts in order, placed from A's cursor.
CloneAppendsReplayed ==
    (call.op = "cloneFrom" /\ call.limit = 2) =>
        AppendedFrom(Replayed(Len(call.before.texts), SliceTo(B.texts, 2)),
                     Len(call.before.texts))

\* a clone of two of B's three records below a line A had written
CloneWitness ==
    /\ call.op = "cloneFrom"
    /\ call.limit = 2
    /\ Len(B.texts) = 3
    /\ call.before.line > 0
    /\ Len(A.texts) = Len(call.before.texts) + 2
    /\ A.texts[Len(A.texts)].ySpace # B.texts[2].ySpace

\* C9: every export promise settles once its callbacks have run, and
\* saveFile's promise rejects when the encode step failed.
ExportsSettle ==
    \A i \in 1..Len(promises) :
        /\ promises[i].awaiting = "nothing" => promises[i].promise # "pending"
        /\ promises[i].inner = "rejected" => promises[i].promise = "rejected"

\* C10: the record and the cursor a writeText leaves are those the same call
\* leaves on a writer with the same cursor and log whose context no earlier
\* write has touched.
WriteIndependentOfEarlierStyle ==
    call.op = "writeText" =>
        LET ref == WriteTextOp([call.before EXCEPT !.ctx = DefaultCtx,
                                                   !.stack = <<DefaultCtx>>],
                               call.text, call.options, call.strokeOptions)
        IN  A.texts = ref.texts /\ A.line = ref.line

=============================================================================
